---- MODULE Spec2Model ----
(***************************************************************************)
(* COIL encoder / decoder (src/backup/enc.py, src/backup/dec.py).          *)
(*                                                                         *)
(* Python strings are sequences of one-character strings.  Every JSON      *)
(* value is a node record with the same five fields, so that any two       *)
(* values can be compared:                                                 *)
(*   t      "int" "float" "bool" "NoneType" "str" "list" "dict", or        *)
(*          "error" for a call that raised an exception                    *)
(*   n      the integer (int), the number of tenths (float), 0/1 (bool)    *)
(*   s      the characters (str)                                           *)
(*   items  the elements (list)                                            *)
(*   fields the key -> value function (dict); keys are character sequences *)
(* A dict iterates in sorted key order: the inputs are the dicts whose     *)
(* keys were inserted in that order.                                       *)
(***************************************************************************)
EXTENDS Integers, Sequences, FiniteSets, TLC

VARIABLES pc, strIn, strEsc, strOut,
          TABLE_ID, TYPE_REGISTRY, typeFile,
          payload, encoded, decoded, prev,
          tbl, tblVmap, tblOut, tblDec

vars == <<pc, strIn, strEsc, strOut, TABLE_ID, TYPE_REGISTRY, typeFile,
          payload, encoded, decoded, prev, tbl, tblVmap, tblOut, tblDec>>

(***************************************************************************)
(* Bounds                                                                  *)
(***************************************************************************)
MaxStrLen == 4

MaxRecs == 3

MaxCalls == 2

MaxVmapRecs == 3

(***************************************************************************)
(* Characters and strings                                                  *)
(***************************************************************************)
ESC == "\\"

PAIR == ","

REC == "|"

COLON == ":"

RECURSIVE Concat(_)
\* "".join(parts)
Concat(parts) ==
  IF parts = <<>> THEN <<>> ELSE Head(parts) \o Concat(Tail(parts))

RECURSIVE Join(_, _)
\* sep.join(parts), sep a string
Join(sep, parts) ==
  IF parts = <<>> THEN <<>>
  ELSE IF Len(parts) = 1 THEN parts[1]
  ELSE parts[1] \o sep \o Join(sep, Tail(parts))

RECURSIVE Replace(_, _, _)
\* v.replace(c, r) for a one-character c
Replace(v, c, r) ==
  IF v = <<>> THEN <<>>
  ELSE (IF Head(v) = c THEN r ELSE <<Head(v)>>) \o Replace(Tail(v), c, r)

\* esc with the escape marker doubled last instead of first
EscMarkerLast(v) ==
  Replace(Replace(Replace(Replace(v, PAIR, <<ESC, PAIR>>),
                          REC, <<ESC, REC>>),
                  COLON, <<ESC, COLON>>),
          ESC, <<ESC, ESC>>)

esc(v) ==
  Replace(Replace(Replace(Replace(v, ESC, <<ESC, ESC>>),
                          PAIR, <<ESC, PAIR>>),
                  REC, <<ESC, REC>>),
          COLON, <<ESC, COLON>>)

RECURSIVE UnescFrom(_, _)
\* the while loop of unesc from index i (1-based)
UnescFrom(v, i) ==
  IF i > Len(v) THEN <<>>
  ELSE IF v[i] = ESC /\ i + 1 <= Len(v)
       THEN <<v[i + 1]>> \o UnescFrom(v, i + 2)
       ELSE <<v[i]>> \o UnescFrom(v, i + 1)

unesc(v) == UnescFrom(v, 1)

(***************************************************************************)
(* Nodes: the JSON values                                                  *)
(***************************************************************************)
Node(t, n, s, items, fields) ==
  [t |-> t, n |-> n, s |-> s, items |-> items, fields |-> fields]

IntNode(n) == Node("int", n, <<>>, <<>>, <<>>)

FloatNode(tenths) == Node("float", tenths, <<>>, <<>>, <<>>)

BoolNode(b) == Node("bool", IF b THEN 1 ELSE 0, <<>>, <<>>, <<>>)

NoneNode == Node("NoneType", 0, <<>>, <<>>, <<>>)

StrNode(s) == Node("str", 0, s, <<>>, <<>>)

ListNode(items) == Node("list", 0, <<>>, items, <<>>)

DictNode(fields) == Node("dict", 0, <<>>, <<>>, fields)

\* the outcome of a call that raised (ValueError, KeyError, IndexError, ...)
ErrorNode == Node("error", 0, <<>>, <<>>, <<>>)

\* code-point order of the characters in use
AsciiOrder ==
  <<"\"", "&", ",", "-", ".", "0", "1", "2", "3", "4", "5", "6", "7", "8",
    "9", ":", ";", "=", "?", "A", "B", "C", "D", "E", "F", "G", "H", "I",
    "J", "K", "L", "M", "N", "O", "P", "Q", "R", "S", "T", "U", "V", "W",
    "X", "Y", "Z", "[", "\\", "]", "_", "a", "b", "c", "d", "e", "f", "g",
    "h", "i", "j", "k", "l", "m", "n", "o", "p", "q", "r", "s", "t", "u",
    "v", "w", "x", "y", "z", "{", "|", "}">>

OrdTable ==
  [c \in {AsciiOrder[i] : i \in 1..Len(AsciiOrder)} |->
     CHOOSE i \in 1..Len(AsciiOrder) : AsciiOrder[i] = c]

\* ord(c), up to an order-preserving renumbering
Ord(c) == OrdTable[c]

RECURSIVE StrLess(_, _)
\* a < b on Python strings
StrLess(a, b) ==
  IF b = <<>> THEN FALSE
  ELSE IF a = <<>> THEN TRUE
  ELSE IF Head(a) = Head(b) THEN StrLess(Tail(a), Tail(b))
  ELSE Ord(Head(a)) < Ord(Head(b))

RECURSIVE SortedSeq(_)
\* sorted(S) for a set of strings
SortedSeq(S) ==
  IF S = {} THEN <<>>
  ELSE LET m == CHOOSE x \in S : \A y \in S \ {x} : StrLess(x, y)
       IN  <<m>> \o SortedSeq(S \ {m})

\* the keys of a dict in iteration order
KeysOf(d) == SortedSeq(DOMAIN d.fields)

Digits == <<"0", "1", "2", "3", "4", "5", "6", "7", "8", "9">>

IsDigit(c) == \E i \in 1..10 : Digits[i] = c

DigitVal(c) == (CHOOSE i \in 1..10 : Digits[i] = c) - 1

RECURSIVE NatToStr(_)
NatToStr(n) ==
  IF n < 10 THEN <<Digits[n + 1]>>
  ELSE NatToStr(n \div 10) \o <<Digits[(n % 10) + 1]>>

\* str(n) for an int
IntToStr(n) == IF n < 0 THEN <<"-">> \o NatToStr(-n) ELSE NatToStr(n)

\* str(x) and repr(x) for a float with one fractional digit
FloatToStr(tenths) ==
  IF tenths < 0
  THEN <<"-">> \o NatToStr((-tenths) \div 10) \o <<".">>
       \o <<Digits[((-tenths) % 10) + 1]>>
  ELSE NatToStr(tenths \div 10) \o <<".">> \o <<Digits[(tenths % 10) + 1]>>

\* str(v) for a scalar
PyStr(v) ==
  CASE v.t = "int" -> IntToStr(v.n)
    [] v.t = "float" -> FloatToStr(v.n)
    [] v.t = "bool" -> IF v.n = 1 THEN <<"T", "r", "u", "e">> ELSE <<"F", "a", "l", "s", "e">>
    [] v.t = "NoneType" -> <<"N", "o", "n", "e">>
    [] OTHER -> v.s

\* type(v).__name__
TypeName(v) == v.t

RECURSIVE JsonDumps(_)
\* json.dumps(v, ensure_ascii=False)
JsonDumps(v) ==
  LET quoted(s) ==
        <<"\"">> \o Replace(Replace(s, "\\", <<"\\", "\\">>),
                            "\"", <<"\\", "\"">>) \o <<"\"">>
  IN
  CASE v.t = "int" -> IntToStr(v.n)
    [] v.t = "float" -> FloatToStr(v.n)
    [] v.t = "bool" -> IF v.n = 1 THEN <<"t", "r", "u", "e">> ELSE <<"f", "a", "l", "s", "e">>
    [] v.t = "NoneType" -> <<"n", "u", "l", "l">>
    [] v.t = "str" -> quoted(v.s)
    [] v.t = "list" ->
         <<"[">> \o Join(<<",", " ">>,
                         [i \in 1..Len(v.items) |-> JsonDumps(v.items[i])])
         \o <<"]">>
    [] OTHER ->
         LET ks == KeysOf(v)
         IN  <<"{">> \o Join(<<",", " ">>,
                             [i \in 1..Len(ks) |->
                                quoted(ks[i]) \o <<":", " ">>
                                \o JsonDumps(v.fields[ks[i]])])
             \o <<"}">>

\* the approximate token_count, used when tiktoken cannot be imported
token_count(s) ==
  LET q == (Len(s) + 3) \div 4 IN IF q > 1 THEN q ELSE 1

is_table(arr) ==
  /\ arr.t = "list"
  /\ Len(arr.items) >= 2
  /\ \A i \in 1..Len(arr.items) : arr.items[i].t = "dict"

collect_keys(records) ==
  SortedSeq(UNION {DOMAIN records[i].fields : i \in 1..Len(records)})

(***************************************************************************)
(* Python's == on values: int, float and bool compare as numbers           *)
(***************************************************************************)
IsNumber(v) == v.t \in {"int", "float", "bool"}

\* the value of a number in tenths
Tenths(v) == IF v.t = "float" THEN v.n ELSE 10 * v.n

RECURSIVE PyEq(_, _)
PyEq(a, b) ==
  IF IsNumber(a) /\ IsNumber(b) THEN Tenths(a) = Tenths(b)
  ELSE IF a.t # b.t THEN FALSE
  ELSE IF a.t = "list"
  THEN /\ Len(a.items) = Len(b.items)
       /\ \A i \in 1..Len(a.items) : PyEq(a.items[i], b.items[i])
  ELSE IF a.t = "dict"
  THEN /\ DOMAIN a.fields = DOMAIN b.fields
       /\ \A k \in DOMAIN a.fields : PyEq(a.fields[k], b.fields[k])
  ELSE IF a.t = "str" THEN a.s = b.s
  ELSE a.t = "NoneType"

(***************************************************************************)
(* Value map.  A vmap is the sequence of its entries [v, t] in the dict's  *)
(* insertion order: v the value string, t its token.                       *)
(***************************************************************************)
\* str(v) of every non-null value, record by record, key by key
VmapVals(records) ==
  LET recVals(r) ==
        LET ks == KeysOf(r)
        IN  SelectSeq([j \in 1..Len(ks) |-> r.fields[ks[j]]],
                      LAMBDA v : v.t # "NoneType")
      strs(r) == LET vs == recVals(r) IN [j \in 1..Len(vs) |-> PyStr(vs[j])]
  IN  Concat([i \in 1..Len(records) |-> strs(records[i])])

\* Counter(vals)[v]
Freq(vals, v) == Cardinality({i \in 1..Len(vals) : vals[i] = v})

RECURSIVE FirstOccurrences(_, _)
\* the keys of Counter(vals), in insertion order
FirstOccurrences(vals, seen) ==
  IF vals = <<>> THEN <<>>
  ELSE IF Head(vals) \in seen THEN FirstOccurrences(Tail(vals), seen)
  ELSE <<Head(vals)>> \o FirstOccurrences(Tail(vals), seen \cup {Head(vals)})

RECURSIVE InsertDesc(_, _, _)
\* x placed after every element whose key is at least its own
InsertDesc(sorted, x, key) ==
  IF sorted = <<>> THEN <<x>>
  ELSE IF key[Head(sorted)] >= key[x]
       THEN <<Head(sorted)>> \o InsertDesc(Tail(sorted), x, key)
       ELSE <<x>> \o sorted

RECURSIVE SortedDesc(_, _)
\* sorted(xs, key=lambda x: key[x], reverse=True): stable, equal keys keep their order
SortedDesc(xs, key) ==
  IF xs = <<>> THEN <<>>
  ELSE InsertDesc(SortedDesc(SubSeq(xs, 1, Len(xs) - 1), key),
                  xs[Len(xs)], key)

min_freq == 2

\* key=lambda x: freq[x]*len(x)
RankKey(vals) ==
  [x \in {vals[i] : i \in 1..Len(vals)} |-> Freq(vals, x) * Len(x)]

\* propose_vmap, with every value occurring at least once kept
ProposeVmapEveryValue(records) ==
  LET vals == VmapVals(records)
      ranked == SortedDesc(FirstOccurrences(vals, {}), RankKey(vals))
  IN  [i \in 1..Len(ranked) |->
         [v |-> ranked[i], t |-> <<"V">> \o IntToStr(i)]]

propose_vmap(records) ==
  LET vals == VmapVals(records)
      kept == SelectSeq(FirstOccurrences(vals, {}),
                        LAMBDA x : Freq(vals, x) >= min_freq)
      ranked == SortedDesc(kept, RankKey(vals))
  IN  [i \in 1..Len(ranked) |->
         [v |-> ranked[i], t |-> <<"V">> \o IntToStr(i)]]

\* vmap.get(vs, default) on the encoder's value -> token dict
VmapGet(vmap, vs, default) ==
  IF \E i \in 1..Len(vmap) : vmap[i].v = vs
  THEN vmap[CHOOSE i \in 1..Len(vmap) : vmap[i].v = vs].t
  ELSE default

(***************************************************************************)
(* Table encoder.  A call returns [out, tid, reg]: the value returned and  *)
(* the globals TABLE_ID and TYPE_REGISTRY after the call.                  *)
(***************************************************************************)
\* r.get(k, "")
RecGet(r, k) == IF k \in DOMAIN r.fields THEN r.fields[k] ELSE StrNode(<<>>)

TableIdOf(n) == <<"t", "b", "l", "_">> \o IntToStr(n)

\* the body before its BODY| marker
TableBody(records, keys, vmap) ==
  LET row(r) ==
        Join(<<PAIR>>,
             [j \in 1..Len(keys) |->
                LET vs == PyStr(RecGet(r, keys[j]))
                IN  VmapGet(vmap, vs, esc(vs))])
      header == <<"t", "a", "b", "l", "e", "[">> \o IntToStr(Len(records)) \o <<"]", "{">>
                \o Join(<<",">>, keys) \o <<"}">>
  IN  Join(<<REC>>,
           <<header>> \o [i \in 1..Len(records) |-> row(records[i])])

TableMeta(keys, table_id, vmap) ==
  <<"M", "E", "T", "A", "&", "O", "R", "D", "E", "R", "=">> \o Join(<<",">>, keys) \o <<"&", "t", "i", "d", "=">> \o table_id
  \o (IF vmap # <<>>
      THEN <<"&", "v", "m", "a", "p", "=">>
           \o Join(<<";">>,
                   [i \in 1..Len(vmap) |-> vmap[i].t \o <<":">> \o vmap[i].v])
      ELSE <<>>)

\* the type name of the first value a record holds under k
ColumnType(records, k) ==
  LET has == {i \in 1..Len(records) : k \in DOMAIN records[i].fields}
  IN  IF has = {} THEN "str"
      ELSE TypeName(records[CHOOSE i \in has : \A j \in has : i <= j].fields[k])

\* d[k] = v
DictSet(d, k, v) ==
  [x \in (DOMAIN d) \cup {k} |-> IF x = k THEN v ELSE d[x]]

KeyMeta == <<"m", "e", "t", "a">>

KeyBody == <<"b", "o", "d", "y">>

BodyMarker == <<"B", "O", "D", "Y", "|">>

MetaMarker == <<"M", "E", "T", "A", "&">>

Wrapper(meta, body) ==
  DictNode([k \in {KeyMeta, KeyBody} |->
              IF k = KeyMeta THEN StrNode(meta) ELSE StrNode(body)])

\* what the auto-skip decision compares
OriginalTokens(records) == token_count(JsonDumps(ListNode(records)))

EncodedTokens(meta, body) == token_count(meta \o <<"|">> \o body)

\* if encoded_tokens >= original_tokens: return records
AutoSkip(encoded_tokens, original_tokens) ==
  encoded_tokens >= original_tokens

encode_table(records, tid, reg) ==
  LET keys == collect_keys(records)
      original_tokens == OriginalTokens(records)
      newId == tid + 1
      table_id == TableIdOf(newId)
      vmap == propose_vmap(records)
      body == TableBody(records, keys, vmap)
      meta == TableMeta(keys, table_id, vmap)
      encoded_tokens == EncodedTokens(meta, body)
  IN  IF AutoSkip(encoded_tokens, original_tokens)
      THEN [out |-> ListNode(records), tid |-> newId, reg |-> reg]
      ELSE [out |-> Wrapper(meta, BodyMarker \o body),
            tid |-> newId,
            reg |-> DictSet(reg, table_id,
                            [k \in {keys[j] : j \in 1..Len(keys)} |->
                               ColumnType(records, k)])]

(***************************************************************************)
(* Recursive encoder                                                       *)
(***************************************************************************)
RECURSIVE encode_any(_, _, _)
RECURSIVE EncodeEach(_, _, _)

\* encode_any over a sequence of values in order, the globals threaded through
EncodeEach(xs, tid, reg) ==
  IF xs = <<>> THEN [outs |-> <<>>, tid |-> tid, reg |-> reg]
  ELSE LET first == encode_any(Head(xs), tid, reg)
           rest == EncodeEach(Tail(xs), first.tid, first.reg)
       IN  [outs |-> <<first.out>> \o rest.outs,
            tid |-> rest.tid, reg |-> rest.reg]

encode_any(obj, tid, reg) ==
  IF is_table(obj) THEN encode_table(obj.items, tid, reg)
  ELSE IF obj.t = "dict"
  THEN LET ks == KeysOf(obj)
           r == EncodeEach([i \in 1..Len(ks) |-> obj.fields[ks[i]]], tid, reg)
       IN  [out |-> DictNode([k \in DOMAIN obj.fields |->
                                r.outs[CHOOSE i \in 1..Len(ks) : ks[i] = k]]),
            tid |-> r.tid, reg |-> r.reg]
  ELSE IF obj.t = "list"
  THEN LET r == EncodeEach(obj.items, tid, reg)
       IN  [out |-> ListNode(r.outs), tid |-> r.tid, reg |-> r.reg]
  ELSE [out |-> obj, tid |-> tid, reg |-> reg]

\* encode without TYPE_REGISTRY = {}
EncodeKeepRegistry(p, tid, reg) == encode_any(p, tid, reg)

\* encode: TYPE_REGISTRY = {}, then encode_any; TABLE_ID is left as it is
encode(p, tid, reg) == encode_any(p, tid, <<>>)

(***************************************************************************)
(* Decoder                                                                 *)
(***************************************************************************)
RECURSIVE SplitAcc(_, _, _)
SplitAcc(s, c, cur) ==
  IF s = <<>> THEN <<cur>>
  ELSE IF Head(s) = c THEN <<cur>> \o SplitAcc(Tail(s), c, <<>>)
  ELSE SplitAcc(Tail(s), c, Append(cur, Head(s)))

\* s.split(c)
Split(s, c) == SplitAcc(s, c, <<>>)

Contains(s, c) == \E i \in 1..Len(s) : s[i] = c

\* s.split(c, 1) for a string holding c
SplitOnce(s, c) ==
  LET i == CHOOSE j \in 1..Len(s) : s[j] = c /\ \A k \in 1..(j - 1) : s[k] # c
  IN  <<SubSeq(s, 1, i - 1), SubSeq(s, i + 1, Len(s))>>

\* s[n:]
Drop(s, n) == SubSeq(s, n + 1, Len(s))

\* dict(pairs)[k]: the last pair under k
PairsHas(pairs, k) == \E i \in 1..Len(pairs) : pairs[i][1] = k

PairsGet(pairs, k) ==
  pairs[CHOOSE i \in 1..Len(pairs) :
          pairs[i][1] = k /\ \A j \in (i + 1)..Len(pairs) : pairs[j][1] # k][2]

\* the pairs of dict(p.split("=", 1) for p in meta.split("&") if "=" in p)
MetaKV(meta) ==
  LET parts == SelectSeq(Split(meta, "&"), LAMBDA p : Contains(p, "="))
  IN  [i \in 1..Len(parts) |-> SplitOnce(parts[i], "=")]

IsIntLiteral(v) ==
  LET d == IF v # <<>> /\ Head(v) = "-" THEN Tail(v) ELSE v
  IN  d # <<>> /\ \A i \in 1..Len(d) : IsDigit(d[i])

RECURSIVE NatOfDigits(_)
NatOfDigits(d) ==
  IF d = <<>> THEN 0
  ELSE 10 * NatOfDigits(SubSeq(d, 1, Len(d) - 1)) + DigitVal(d[Len(d)])

\* int(v) for an int literal
IntOfStr(v) ==
  IF Head(v) = "-" THEN 0 - NatOfDigits(Tail(v)) ELSE NatOfDigits(v)

\* the float literals of the model: an int literal, or one followed by a dot
\* and one digit
IsFloatLiteral(v) ==
  \/ IsIntLiteral(v)
  \/ /\ Len(v) >= 3
     /\ v[Len(v) - 1] = "."
     /\ IsDigit(v[Len(v)])
     /\ IsIntLiteral(SubSeq(v, 1, Len(v) - 2))

\* float(v) in tenths
TenthsOfStr(v) ==
  IF IsIntLiteral(v) THEN 10 * IntOfStr(v)
  ELSE LET whole == SubSeq(v, 1, Len(v) - 2)
           frac == DigitVal(v[Len(v)])
       IN  IF Head(whole) = "-" THEN 10 * IntOfStr(whole) - frac
           ELSE 10 * IntOfStr(whole) + frac

\* c.lower() for the letters in use
LowerChar(c) ==
  CASE c = "T" -> "t" [] c = "F" -> "f" [] c = "N" -> "n" [] c = "V" -> "v"
    [] c = "A" -> "a" [] c = "B" -> "b" [] c = "D" -> "d" [] c = "E" -> "e"
    [] c = "M" -> "m" [] c = "O" -> "o" [] c = "R" -> "r" [] c = "Y" -> "y"
    [] OTHER -> c

Lower(v) == [i \in 1..Len(v) |-> LowerChar(v[i])]

\* int() and float() raise ValueError on anything but a literal
restore_type(v, t) ==
  CASE t = "int" -> IF IsIntLiteral(v) THEN IntNode(IntOfStr(v)) ELSE ErrorNode
    [] t = "float" ->
         IF IsFloatLiteral(v) THEN FloatNode(TenthsOfStr(v)) ELSE ErrorNode
    [] t = "bool" -> BoolNode(Lower(v) = <<"t", "r", "u", "e">>)
    [] t = "NoneType" -> NoneNode
    [] OTHER -> StrNode(v)

\* body.split(REC)[1:] with each row split on PAIR
BodyRows(body) ==
  LET rows == Tail(Split(body, REC))
  IN  [i \in 1..Len(rows) |-> Split(rows[i], PAIR)]

\* the token -> value pairs of the vmap segment; <<>> for an entry without ':'
VmapPairs(kv) ==
  IF PairsHas(kv, <<"v", "m", "a", "p">>)
  THEN LET es == Split(PairsGet(kv, <<"v", "m", "a", "p">>), ";")
       IN  [i \in 1..Len(es) |->
              IF Contains(es[i], ":") THEN SplitOnce(es[i], ":") ELSE <<>>]
  ELSE <<>>

\* vmap.get(raw, unesc(raw))
ResolveField(vmap, raw) ==
  IF PairsHas(vmap, raw) THEN PairsGet(vmap, raw) ELSE unesc(raw)

\* types.get(table_id, {}).get(k, "str")
ColTypeOf(types, table_id, k) ==
  IF table_id \in DOMAIN types
  THEN IF k \in DOMAIN types[table_id] THEN types[table_id][k] ELSE "str"
  ELSE "str"

\* decode_table on the values held under meta and body
decode_table(metaNode, bodyNode, types) ==
  IF metaNode.t # "str" \/ bodyNode.t # "str" THEN ErrorNode
  ELSE
  LET meta == Drop(metaNode.s, Len(MetaMarker))
      body == Drop(bodyNode.s, Len(BodyMarker))
      kv == MetaKV(meta)
  IN
  IF ~PairsHas(kv, <<"O", "R", "D", "E", "R">>) \/ ~PairsHas(kv, <<"t", "i", "d">>) THEN ErrorNode
  ELSE
  LET keys == Split(PairsGet(kv, <<"O", "R", "D", "E", "R">>), ",")
      table_id == PairsGet(kv, <<"t", "i", "d">>)
      vmap == VmapPairs(kv)
      rows == BodyRows(body)
      keySet == {keys[j] : j \in 1..Len(keys)}
      lastIdx(k) == CHOOSE j \in 1..Len(keys) :
                      keys[j] = k /\ \A m \in (j + 1)..Len(keys) : keys[m] # k
      field(vals, j) ==
        restore_type(ResolveField(vmap, vals[j]),
                     ColTypeOf(types, table_id, keys[j]))
      rec(vals) == [k \in keySet |-> field(vals, lastIdx(k))]
  IN
  IF \E i \in 1..Len(vmap) : vmap[i] = <<>> THEN ErrorNode
  ELSE IF \E i \in 1..Len(rows) : Len(rows[i]) < Len(keys) THEN ErrorNode
  ELSE IF \E i \in 1..Len(rows) : \E j \in 1..Len(keys) :
            field(rows[i], j).t = "error"
  THEN ErrorNode
  ELSE ListNode([i \in 1..Len(rows) |-> DictNode(rec(rows[i]))])

RECURSIVE decode_any(_, _)

\* an exception raised below propagates: the whole call raises
decode_any(obj, types) ==
  IF obj.t = "dict"
  THEN IF KeyMeta \in DOMAIN obj.fields /\ KeyBody \in DOMAIN obj.fields
       THEN decode_table(obj.fields[KeyMeta], obj.fields[KeyBody], types)
       ELSE LET kids == [k \in DOMAIN obj.fields |->
                           decode_any(obj.fields[k], types)]
            IN  IF \E k \in DOMAIN kids : kids[k].t = "error" THEN ErrorNode
                ELSE DictNode(kids)
  ELSE IF obj.t = "list"
  THEN LET kids == [i \in 1..Len(obj.items) |->
                      decode_any(obj.items[i], types)]
       IN  IF \E i \in 1..Len(kids) : kids[i].t = "error" THEN ErrorNode
           ELSE ListNode(kids)
  ELSE obj

\* decode: the registry is read from the file
decode(p, file) == decode_any(p, file.data)

(***************************************************************************)
(* Escaping: the inputs are all strings over EscChars up to MaxStrLen      *)
(***************************************************************************)
EscChars == {ESC, PAIR, REC, COLON, "a"}

RECURSIVE StringsUpTo(_, _)
StringsUpTo(alphabet, n) ==
  IF n = 0 THEN {<<>>}
  ELSE LET shorter == StringsUpTo(alphabet, n - 1)
       IN  shorter \cup {Append(w, c) : w \in shorter, c \in alphabet}

NoStr == <<"?">>

\* no tree yet
NoNode == Node("unset", 0, <<>>, <<>>, <<>>)

\* TYPE_FILE before the first encode call
NoFile == [exists |-> FALSE, data |-> <<>>]

\* prev: the number of encode calls made, whether the last one encoded the
\* same tree as the one before it, and if so what that one returned and wrote
NoPrev == [calls |-> 0, same |-> FALSE, encoded |-> NoNode, registry |-> <<>>]

EscIdle ==
  /\ TABLE_ID = 0 /\ TYPE_REGISTRY = <<>> /\ typeFile = NoFile
  /\ payload = NoNode /\ encoded = NoNode /\ decoded = NoNode
  /\ prev = NoPrev
  /\ tbl = <<>> /\ tblVmap = <<>> /\ tblOut = NoNode /\ tblDec = NoNode

InitEsc ==
  /\ pc = "esc"
  /\ strIn \in StringsUpTo(EscChars, MaxStrLen)
  /\ strEsc = NoStr
  /\ strOut = NoStr
  /\ EscIdle

DoEsc ==
  /\ pc = "esc"
  /\ strEsc' = esc(strIn)
  /\ pc' = "unesc"
  /\ UNCHANGED <<strIn, strOut, TABLE_ID, TYPE_REGISTRY, typeFile, payload,
                 encoded, decoded, prev, tbl, tblVmap, tblOut, tblDec>>

DoUnesc ==
  /\ pc = "unesc"
  /\ strOut' = unesc(strEsc)
  /\ pc' = "escdone"
  /\ UNCHANGED <<strIn, strEsc, TABLE_ID, TYPE_REGISTRY, typeFile, payload,
                 encoded, decoded, prev, tbl, tblVmap, tblOut, tblDec>>

NextEsc == DoEsc \/ DoUnesc

SpecEsc == InitEsc /\ [][NextEsc]_vars

\* the escape markers of w pair up from the left: w never ends in a lone marker
RECURSIVE WellEscapedFrom(_, _)
WellEscapedFrom(w, i) ==
  IF i > Len(w) THEN TRUE
  ELSE IF w[i] = ESC THEN i + 1 <= Len(w) /\ WellEscapedFrom(w, i + 2)
  ELSE WellEscapedFrom(w, i + 1)

\* C2: for every string s over an alphabet with the escape marker, ',', '|'
\* and ':', unesc(esc(s)) = s, and esc(s) never ends in an unmatched marker.
C2_EscInverse ==
  /\ pc \in {"unesc", "escdone"} => WellEscapedFrom(strEsc, 1)
  /\ pc = "escdone" => strOut = strIn

\* a string holding all four reserved characters has been escaped and unescaped
C2_Witness ==
  /\ pc = "escdone"
  /\ {ESC, PAIR, REC, COLON} \subseteq {strIn[i] : i \in 1..Len(strIn)}
  /\ Len(strEsc) = 2 * Len(strIn)
  /\ strOut = strIn
(***************************************************************************)
(* Tables: encode_table then decode_table on every table of 2..MaxRecs     *)
(* flat records over two columns                                           *)
(***************************************************************************)
KeyIdent == <<"i", "d", "e", "n", "t">>

KeyLabel == <<"l", "a", "b", "e", "l">>

IdentValues == {IntNode(1), IntNode(12), NoneNode}

LabelValues == {StrNode(<<"x", "y">>), StrNode(<<"a", "b">>), StrNode(<<"a", ",">>)}

\* the flat records: each key present or missing
TableRecords ==
  {DictNode([k \in {KeyIdent, KeyLabel} |->
               IF k = KeyIdent THEN a ELSE b]) :
     a \in IdentValues, b \in LabelValues}
  \cup {DictNode([k \in {KeyIdent} |-> a]) : a \in IdentValues}
  \cup {DictNode([k \in {KeyLabel} |-> b]) : b \in LabelValues}
  \cup {DictNode(<<>>)}

Tables == UNION {[1..n -> TableRecords] : n \in 2..MaxRecs}

InitTable ==
  /\ pc = "table"
  /\ tbl \in Tables
  /\ tblVmap = <<>>
  /\ tblOut = NoNode
  /\ tblDec = NoNode
  /\ TABLE_ID = 0
  /\ TYPE_REGISTRY = <<>>
  /\ typeFile = NoFile
  /\ strIn = NoStr /\ strEsc = NoStr /\ strOut = NoStr
  /\ payload = NoNode /\ encoded = NoNode /\ decoded = NoNode
  /\ prev = NoPrev

TableEncode ==
  /\ pc = "table"
  /\ \E r \in {encode_table(tbl, TABLE_ID, TYPE_REGISTRY)} :
         /\ tblOut' = r.out
         /\ TABLE_ID' = r.tid
         /\ TYPE_REGISTRY' = r.reg
  /\ tblVmap' = propose_vmap(tbl)
  /\ pc' = "tencoded"
  /\ UNCHANGED <<strIn, strEsc, strOut, typeFile, payload, encoded, decoded,
                 prev, tbl, tblDec>>

TableDecode ==
  /\ pc = "tencoded"
  /\ tblOut.t = "dict"
  /\ tblDec' = decode_table(tblOut.fields[KeyMeta], tblOut.fields[KeyBody],
                            TYPE_REGISTRY)
  /\ pc' = "tdecoded"
  /\ UNCHANGED <<strIn, strEsc, strOut, TABLE_ID, TYPE_REGISTRY, typeFile,
                 payload, encoded, decoded, prev, tbl, tblVmap, tblOut>>

NextTable == TableEncode \/ TableDecode

SpecTable == InitTable /\ [][NextTable]_vars

IsWrapper(v) == v.t = "dict" /\ DOMAIN v.fields = {KeyMeta, KeyBody}

TableEncoded == pc \in {"tencoded", "tdecoded"}

\* the estimated cost of the wrapper's two strings concatenated
ReturnedTokens(w) ==
  token_count(w.fields[KeyMeta].s \o w.fields[KeyBody].s)

\* the estimated cost of what encode_table measured: meta, '|', and the body
\* without its BODY| marker
MeasuredTokens(w) ==
  EncodedTokens(w.fields[KeyMeta].s,
                Drop(w.fields[KeyBody].s, Len(BodyMarker)))

\* C4 as stated: encode_table returns a meta/body wrapper only if the
\* estimated cost of the returned meta and body strings concatenated is
\* strictly lower than that of the JSON of the records; otherwise it returns
\* the records unchanged.
C4_AutoSkipReturnedStrings ==
  TableEncoded =>
    IF IsWrapper(tblOut)
    THEN ReturnedTokens(tblOut) < OriginalTokens(tbl)
    ELSE tblOut = ListNode(tbl)

\* what encode_table compares instead: it returns a meta/body wrapper only if
\* the estimated cost of meta + '|' + body, the body taken without its BODY|
\* marker, is strictly lower than that of the JSON of the records; whenever
\* that cost is not strictly lower the records are returned unchanged and the
\* registry gets no entry.
MeasuredCandidateDecides ==
  TableEncoded =>
    IF IsWrapper(tblOut)
    THEN /\ MeasuredTokens(tblOut) < OriginalTokens(tbl)
         /\ DOMAIN TYPE_REGISTRY = {TableIdOf(TABLE_ID)}
    ELSE /\ tblOut = ListNode(tbl)
         /\ TYPE_REGISTRY = <<>>
         /\ LET keys == collect_keys(tbl)
                vmap == propose_vmap(tbl)
            IN  EncodedTokens(TableMeta(keys, TableIdOf(TABLE_ID), vmap),
                              TableBody(tbl, keys, vmap))
                  >= OriginalTokens(tbl)

\* an accepted table whose returned strings cost exactly what the JSON costs
C4_Witness ==
  /\ TableEncoded
  /\ IsWrapper(tblOut)
  /\ MeasuredTokens(tblOut) + 1 = OriginalTokens(tbl)
  /\ ReturnedTokens(tblOut) = OriginalTokens(tbl)

FullKeys(records) ==
  \A i \in 1..Len(records) :
    DOMAIN records[i].fields = {KeyIdent, KeyLabel}

SingleTypeColumns(records) ==
  \A k \in {KeyIdent, KeyLabel} :
    \A i, j \in 1..Len(records) :
      (k \in DOMAIN records[i].fields /\ k \in DOMAIN records[j].fields)
        => records[i].fields[k].t = records[j].fields[k].t

\* C5: for an accepted table whose records all have every key and whose
\* columns each hold one primitive type, decoding with the registry written
\* by the encoder returns every value with its original type and value.
C5_TypeFidelity ==
  (pc = "tdecoded" /\ FullKeys(tbl) /\ SingleTypeColumns(tbl))
    => tblDec = ListNode(tbl)

\* no value holds a reserved character
PlainValues(records) ==
  \A i \in 1..Len(records) : \A k \in DOMAIN records[i].fields :
    \A c \in {ESC, PAIR, REC, COLON} :
      ~Contains(PyStr(records[i].fields[k]), c)

\* C6: when a record of an accepted table lacks a key another record has,
\* the absent value is encoded as an empty field and decoding reproduces the
\* record as it was, without failing, whatever the column's registered type.
\* Stated for the tables with nothing else in the way: single-type columns
\* and plain values.
C6_MissingKeys ==
  (pc = "tdecoded" /\ SingleTypeColumns(tbl) /\ PlainValues(tbl)) =>
    \A i \in 1..Len(tbl) :
      DOMAIN tbl[i].fields # {KeyIdent, KeyLabel} =>
        /\ tblDec.t = "list"
        /\ Len(tblDec.items) = Len(tbl)
        /\ tblDec.items[i] = tbl[i]

\* C10: for every accepted table decode_table parses the body into one row
\* per record and one field per column, and each resolved field is the string
\* the encoder wrote for that record and column.
C10_BodySegmentation ==
  (TableEncoded /\ IsWrapper(tblOut)) =>
    LET keys == collect_keys(tbl)
        rows == BodyRows(Drop(tblOut.fields[KeyBody].s, Len(BodyMarker)))
        vmap == VmapPairs(MetaKV(Drop(tblOut.fields[KeyMeta].s,
                                      Len(MetaMarker))))
    IN  /\ Len(rows) = Len(tbl)
        /\ \A i \in 1..Len(rows) :
             /\ Len(rows[i]) = Len(keys)
             /\ \A j \in 1..Len(keys) :
                  ResolveField(vmap, rows[i][j]) = PyStr(RecGet(tbl[i], keys[j]))

(***************************************************************************)
(* Value map: propose_vmap on every table of 2..MaxVmapRecs records whose  *)
(* values share string representations across types and columns            *)
(***************************************************************************)
VmapIdentValues == {IntNode(1), NoneNode}

VmapLabelValues == {StrNode(<<"1">>), StrNode(<<"N", "o", "n", "e">>), StrNode(<<"a", "b">>)}

VmapRecords ==
  {DictNode([k \in {KeyIdent, KeyLabel} |->
               IF k = KeyIdent THEN a ELSE b]) :
     a \in VmapIdentValues, b \in VmapLabelValues}
  \cup {DictNode([k \in {KeyIdent} |-> a]) : a \in VmapIdentValues}
  \cup {DictNode([k \in {KeyLabel} |-> b]) : b \in VmapLabelValues}
  \cup {DictNode(<<>>)}

VmapTables == UNION {[1..n -> VmapRecords] : n \in 2..MaxVmapRecs}

InitVmap ==
  /\ pc = "vmap"
  /\ tbl \in VmapTables
  /\ tblVmap = <<>>
  /\ tblOut = NoNode
  /\ tblDec = NoNode
  /\ TABLE_ID = 0
  /\ TYPE_REGISTRY = <<>>
  /\ typeFile = NoFile
  /\ strIn = NoStr /\ strEsc = NoStr /\ strOut = NoStr
  /\ payload = NoNode /\ encoded = NoNode /\ decoded = NoNode
  /\ prev = NoPrev

DoVmap ==
  /\ pc = "vmap"
  /\ tblVmap' = propose_vmap(tbl)
  /\ pc' = "vmapdone"
  /\ UNCHANGED <<strIn, strEsc, strOut, TABLE_ID, TYPE_REGISTRY, typeFile,
                 payload, encoded, decoded, prev, tbl, tblOut, tblDec>>

NextVmap == DoVmap

SpecVmap == InitVmap /\ [][NextVmap]_vars

\* the values of the table, cell by cell
Cells(records) ==
  {<<i, k>> : i \in 1..Len(records), k \in {KeyIdent, KeyLabel}}
    \cap {c \in (1..Len(records)) \X {KeyIdent, KeyLabel} :
            c[2] \in DOMAIN records[c[1]].fields}

CellStr(records, c) == PyStr(records[c[1]].fields[c[2]])

\* how many cells read as the string v, null cells counted or not
Occurrences(records, v, withNull) ==
  Cardinality({c \in Cells(records) :
                 /\ CellStr(records, c) = v
                 /\ withNull \/ records[c[1]].fields[c[2]].t # "NoneType"})

VmapEntries(vmap, v) == {i \in 1..Len(vmap) : vmap[i].v = v}

\* C9: in the value map of a table, a value whose string representation
\* occurs exactly once across all records and columns has no entry; every
\* non-null value whose string representation occurs at least 2 times (among
\* the non-null values, which are the ones propose_vmap collects) has exactly
\* one entry; the tokens are V1, V2, ... in descending order of frequency
\* times length.
C9_ValueMapThreshold ==
  pc = "vmapdone" =>
    LET strs == {CellStr(tbl, c) : c \in Cells(tbl)}
        rank(v) == Occurrences(tbl, v, FALSE) * Len(v)
    IN  /\ \A v \in strs :
             Occurrences(tbl, v, TRUE) = 1 => VmapEntries(tblVmap, v) = {}
        /\ \A v \in strs :
             Occurrences(tbl, v, FALSE) >= 2
               => Cardinality(VmapEntries(tblVmap, v)) = 1
        /\ \A i \in 1..Len(tblVmap) :
             /\ tblVmap[i].t = <<"V">> \o IntToStr(i)
             /\ \A j \in (i + 1)..Len(tblVmap) :
                  rank(tblVmap[i].v) >= rank(tblVmap[j].v)

\* a table with a value occurring once, and two mapped values of different
\* rank, the shorter one first in the table
C9_Witness ==
  /\ pc = "vmapdone"
  /\ Len(tblVmap) = 2
  /\ Len(tblVmap[1].v) > Len(tblVmap[2].v)
  /\ KeyIdent \in DOMAIN tbl[1].fields
  /\ PyStr(tbl[1].fields[KeyIdent]) = tblVmap[2].v
  /\ \E c \in Cells(tbl) : Occurrences(tbl, CellStr(tbl, c), TRUE) = 1

(***************************************************************************)
(* The program: encode and decode calls in one process                     *)
(***************************************************************************)
KeyX == <<"x">>

KeyY == <<"y">>

Rec2(a, b) ==
  DictNode([k \in {KeyIdent, KeyLabel} |-> IF k = KeyIdent THEN a ELSE b])

Rec5(b, f, i, n, s) ==
  DictNode([k \in {<<"b">>, <<"f">>, <<"i">>, <<"n">>, <<"s">>} |->
              CASE k = <<"b">> -> b [] k = <<"f">> -> f [] k = <<"i">> -> i
                [] k = <<"n">> -> n [] OTHER -> s])

\* accepted; one column of each primitive type
TypedTable ==
  ListNode(<<Rec5(BoolNode(TRUE), FloatNode(15), IntNode(1), NoneNode,
                  StrNode(<<"x", "y">>)),
             Rec5(BoolNode(FALSE), FloatNode(20), IntNode(12), NoneNode,
                  StrNode(<<"a", "b">>)),
             Rec5(BoolNode(FALSE), FloatNode(5), IntNode(7), NoneNode,
                  StrNode(<<"z">>))>>)

\* accepted; a value holds the field separator
CommaTable ==
  ListNode(<<Rec2(IntNode(1), StrNode(<<"a", ",">>)),
             Rec2(IntNode(1), StrNode(<<"a", "b">>)),
             Rec2(IntNode(1), StrNode(<<"x", "y">>))>>)

\* rejected by auto-skip
SmallTable ==
  ListNode(<<Rec2(IntNode(1), StrNode(<<"x", "y">>)),
             Rec2(IntNode(12), StrNode(<<"a", "b">>))>>)

\* a list that is no table
PlainList == ListNode(<<FloatNode(15), BoolNode(TRUE), StrNode(<<"x", "y">>)>>)

\* a one-element list holding an object that holds a table
NestedTable == ListNode(<<DictNode([k \in {KeyX} |-> TypedTable])>>)

Children ==
  {TypedTable, CommaTable, SmallTable, PlainList, NestedTable, NoneNode}

Payloads ==
  Children
  \cup {DictNode([k \in {KeyX, KeyY} |-> IF k = KeyX THEN c ELSE d]) :
          c \in Children, d \in Children}

Init ==
  /\ pc = "idle"
  /\ TABLE_ID = 0
  /\ TYPE_REGISTRY = <<>>
  /\ typeFile = NoFile
  /\ payload = NoNode /\ encoded = NoNode /\ decoded = NoNode
  /\ prev = NoPrev
  /\ strIn = NoStr /\ strEsc = NoStr /\ strOut = NoStr
  /\ tbl = <<>> /\ tblVmap = <<>> /\ tblOut = NoNode /\ tblDec = NoNode

\* result = encode(T): the registry is reset, the tree encoded, the registry
\* written to TYPE_FILE
Encode(T) ==
  /\ prev.calls < MaxCalls
  /\ \E r \in {encode(T, TABLE_ID, TYPE_REGISTRY)} :
     LET again == pc # "idle" /\ T = payload
     IN  /\ encoded' = r.out
         /\ TABLE_ID' = r.tid
         /\ TYPE_REGISTRY' = r.reg
         /\ typeFile' = [exists |-> TRUE, data |-> r.reg]
         /\ prev' = [calls |-> prev.calls + 1,
                     same |-> again,
                     encoded |-> IF again THEN encoded ELSE NoNode,
                     registry |-> IF again THEN TYPE_REGISTRY ELSE <<>>]
  /\ payload' = T
  /\ decoded' = NoNode
  /\ pc' = "encoded"
  /\ UNCHANGED <<strIn, strEsc, strOut, tbl, tblVmap, tblOut, tblDec>>

\* decoded = decode(encoded), with the registry file of the last encode
Decode ==
  /\ pc = "encoded"
  /\ decoded' = decode(encoded, typeFile)
  /\ pc' = "decoded"
  /\ UNCHANGED <<strIn, strEsc, strOut, TABLE_ID, TYPE_REGISTRY, typeFile,
                 payload, encoded, prev, tbl, tblVmap, tblOut, tblDec>>

Next == (\E T \in Payloads : Encode(T)) \/ Decode

Spec == Init /\ [][Next]_vars

\* C1: decode(encode(T)), run against the registry written by that encode
\* call, returns a tree equal to T.
C1_RoundTrip == pc = "decoded" => PyEq(decoded, payload)

\* C3: encoding the same tree twice in one process yields identical meta and
\* body strings for every table and an identical registry, however many
\* encode calls came before.
C3_Determinism ==
  prev.same => (encoded = prev.encoded /\ TYPE_REGISTRY = prev.registry)

RECURSIVE AcceptedWrappers(_, _)
\* the wrappers that replaced a table of p in e, in traversal order
AcceptedWrappers(p, e) ==
  IF is_table(p) THEN (IF IsWrapper(e) THEN <<e>> ELSE <<>>)
  ELSE IF p.t = "dict"
  THEN LET ks == KeysOf(p)
       IN  Concat([i \in 1..Len(ks) |->
                     AcceptedWrappers(p.fields[ks[i]], e.fields[ks[i]])])
  ELSE IF p.t = "list"
  THEN Concat([i \in 1..Len(p.items) |->
                 AcceptedWrappers(p.items[i], e.items[i])])
  ELSE <<>>

RECURSIVE TableCount(_)
\* the tables encode_any meets in p
TableCount(p) ==
  IF is_table(p) THEN 1
  ELSE IF p.t = "dict"
  THEN LET ks == KeysOf(p)
       IN  Len(Concat([i \in 1..Len(ks) |->
                         [j \in 1..TableCount(p.fields[ks[i]]) |-> 0]]))
  ELSE IF p.t = "list"
  THEN Len(Concat([i \in 1..Len(p.items) |->
                     [j \in 1..TableCount(p.items[i]) |-> 0]]))
  ELSE 0

\* the tid and the column order a wrapper's meta string records
MetaOf(w) == MetaKV(Drop(w.fields[KeyMeta].s, Len(MetaMarker)))

WrapperTid(w) == PairsGet(MetaOf(w), <<"t", "i", "d">>)

WrapperKeys(w) ==
  LET ks == Split(PairsGet(MetaOf(w), <<"O", "R", "D", "E", "R">>), ",")
  IN  {ks[j] : j \in 1..Len(ks)}

\* C8: after any sequence of encode calls the registry persisted by the last
\* call has exactly one entry per table accepted during that call, keyed by
\* the tid in that table's meta string, and no entry for a rejected table or
\* for a table encoded by an earlier call.
C8_RegistryMatchesAccepted ==
  pc \in {"encoded", "decoded"} =>
    LET ws == AcceptedWrappers(payload, encoded)
        tids == {WrapperTid(ws[i]) : i \in 1..Len(ws)}
    IN  /\ typeFile.exists
        /\ DOMAIN typeFile.data = tids
        /\ Cardinality(tids) = Len(ws)
        /\ \A i \in 1..Len(ws) :
             DOMAIN typeFile.data[WrapperTid(ws[i])] = WrapperKeys(ws[i])

\* a second call on a tree with one accepted and one rejected table, after a
\* first call that accepted a table too
C8_Witness ==
  /\ pc = "encoded"
  /\ prev.calls = 2
  /\ prev.same
  /\ TableCount(payload) = 2
  /\ Len(AcceptedWrappers(payload, encoded)) = 1
  /\ Cardinality(DOMAIN typeFile.data) = 1

(***************************************************************************)
(* Decoding objects that no encode call produced                           *)
(***************************************************************************)
KeyExtra == <<"z">>

\* a meta string and a body string as encode_table writes them
MarkedMeta == StrNode(<<"M", "E", "T", "A", "&", "O", "R", "D", "E", "R", "=", "a", "&", "t", "i", "d", "=", "t">>)

MarkedBody ==
  StrNode(<<"B", "O", "D", "Y", "|", "t", "a", "b",
            "l", "e", "[", "2", "]", "{", "a", "}", "|", "1", "|", "2">>)

\* the values held under meta: with the marker, without it, without it but
\* with the segments behind five other characters, and no string at all
MetaValues ==
  {MarkedMeta, StrNode(<<"m">>), StrNode(<<"1", "2", "3", "4", "5", "O", "R", "D", "E", "R", "=", "a", "&", "t", "i", "d", "=", "t">>), IntNode(1)}

BodyValues == {MarkedBody, StrNode(<<"b">>), IntNode(2)}

ExtraValues ==
  {IntNode(3),
   ListNode(<<DictNode([k \in {KeyMeta, KeyBody} |->
                          IF k = KeyMeta THEN MarkedMeta ELSE MarkedBody])>>)}

DecValues(k) ==
  CASE k = KeyMeta -> MetaValues [] k = KeyBody -> BodyValues
    [] OTHER -> ExtraValues

\* every object over a subset of the keys meta, body and z
DecObjects ==
  {DictNode(f) :
     f \in UNION {{g \in [S -> MetaValues \cup BodyValues \cup ExtraValues] :
                     \A k \in S : g[k] \in DecValues(k)} :
                  S \in SUBSET {KeyMeta, KeyBody, KeyExtra}}}

\* the registry file read by decode
DecTypes == [t \in {<<"t">>} |-> [k \in {<<"a">>} |-> "int"]]

InitDec ==
  /\ pc = "dec"
  /\ encoded \in DecObjects
  /\ typeFile = [exists |-> TRUE, data |-> DecTypes]
  /\ decoded = NoNode
  /\ payload = NoNode
  /\ TABLE_ID = 0
  /\ TYPE_REGISTRY = <<>>
  /\ prev = NoPrev
  /\ strIn = NoStr /\ strEsc = NoStr /\ strOut = NoStr
  /\ tbl = <<>> /\ tblVmap = <<>> /\ tblOut = NoNode /\ tblDec = NoNode

\* decoded = decode(encoded)
DoDecode ==
  /\ pc = "dec"
  /\ decoded' = decode(encoded, typeFile)
  /\ pc' = "decdone"
  /\ UNCHANGED <<strIn, strEsc, strOut, TABLE_ID, TYPE_REGISTRY, typeFile,
                 payload, encoded, prev, tbl, tblVmap, tblOut, tblDec>>

NextDec == DoDecode

SpecDec == InitDec /\ [][NextDec]_vars

\* v is a string that starts with the marker m
HasMarker(v, m) ==
  v.t = "str" /\ Len(v.s) >= Len(m) /\ SubSeq(v.s, 1, Len(m)) = m

\* exactly the two fields meta and body, each carrying its marker
IsMarkedTable(o) ==
  /\ o.t = "dict"
  /\ DOMAIN o.fields = {KeyMeta, KeyBody}
  /\ HasMarker(o.fields[KeyMeta], MetaMarker)
  /\ HasMarker(o.fields[KeyBody], BodyMarker)

\* C7: decode_any takes an object for an Encoded Table only when it has
\* exactly the two fields meta and body carrying the META& and BODY| markers;
\* every other object comes back with the same key set, each value
\* recursively decoded.
C7_DecodeRecursionRule ==
  pc = "decdone" =>
    IF IsMarkedTable(encoded)
    THEN decoded = decode_table(encoded.fields[KeyMeta],
                                encoded.fields[KeyBody], typeFile.data)
    ELSE /\ decoded.t = "dict"
         /\ DOMAIN decoded.fields = DOMAIN encoded.fields
         /\ \A k \in DOMAIN encoded.fields :
              decoded.fields[k] = decode_any(encoded.fields[k], typeFile.data)

====
